---- MODULE Spec2Model ----
(***************************************************************************)
(* Model of contracts/MinesGame.sol: the per-player game ledger, the       *)
(* payout computation and the shared pool.  Every external function of the *)
(* contract is one action; a call that reverts leaves the storage as it    *)
(* was and only records its outcome in lastCall.                           *)
(***************************************************************************)
EXTENDS Integers, FiniteSets, Sequences, TLC

\* ------------------------------------------------------------------------
\* Program constants
\* ------------------------------------------------------------------------
GRID_SIZE == 25        \* new bool[](25), % 25, tileIndex < 25
MAX_MINES == 24        \* numberOfMines <= 24
MIN_MINES == 1         \* numberOfMines >= 1
UINT8_MAX == 255       \* uint8 totalMines, revealedSafeTiles, tileIndex
PERCENT == 100         \* (betAmount * multiplier) / 100

\* ------------------------------------------------------------------------
\* Bounds of the model
\* ------------------------------------------------------------------------
MaxPool == 200         \* cap on sharedPoolBalance (uint256 in the code)
MaxTime == 1           \* block.timestamp ranges over 0..MaxTime
GasRetries == 2        \* do-while iterations one slot may run before the gas is gone
MaxDeposits == 3       \* cap on the number of payable calls that went through

Players == {1, 2}                  \* msg.sender
StakeInputs == {0, 100}            \* msg.value of startGame
FundInputs == {5}                  \* msg.value of addHouseFunds
MineInputs == {0, 1, 25}           \* numberOfMines (uint8), two players
TileInputs == {0, 1, 2, 25}        \* tileIndex (uint8), two players
RoundMineInputs == {0, 1, 3, 24, 25}   \* numberOfMines (uint8), one player
HashSlopes == {0, 1, 5}            \* the keccak256 stand-ins, see keccakMod25
BetInputs == {0, 1, 99, 100, 250}  \* betAmount of a direct calculateWinnings call

VARIABLES
    games,               \* mapping(address => Game) games
    sharedPoolBalance,   \* uint256 sharedPoolBalance
    balance,             \* address(this).balance, the value the contract holds
    timestamp,           \* block.timestamp of the block being executed
    hashSlope,           \* which keccak256 stand-in this behaviour runs with
    deposits,            \* number of payable calls (startGame, addHouseFunds) that went through
    lastCall,            \* the last external call and its outcome
    ui                   \* the state of the Game component of the player's browser

vars == <<games, sharedPoolBalance, balance, timestamp, hashSlope, deposits,
          lastCall, ui>>

Tiles == 0 .. (GRID_SIZE - 1)

\* The value of a storage slot never written: mapping default of struct Game.
NoGame ==
    [player |-> 0, betAmount |-> 0, totalMines |-> 0, revealedSafeTiles |-> 0,
     revealedTiles |-> << >>, mineLocations |-> << >>, isActive |-> FALSE]

\* A value of the browser that may be null or undefined: the empty set, or
\* the set of the one value.
Null == {}
Some(v) == {v}
ValueOf(opt) == CHOOSE v \in opt : TRUE

\* useState(null), useState('0'), useState({ isOpen: false, isWin: false, amount: '0' });
\* fetched is the outcome of the reads of the last fetchAndUpdateState.
ClosedModal == [isOpen |-> FALSE, isWin |-> FALSE, amount |-> 0]
NoUi == [game |-> Null, liveProfit |-> 0, modal |-> ClosedModal, fetched |-> "none"]

\* Results of a checked computation: a value, or the abort of the call.
Ok(v) == [ok |-> TRUE, val |-> v]
Panic == [ok |-> FALSE, val |-> 0]

\* ------------------------------------------------------------------------
\* Mine placement (startGame, the for/do-while loops)
\* ------------------------------------------------------------------------

\* uint8(uint256(keccak256(abi.encodePacked(block.timestamp, msg.sender, i))) % 25).
\* keccak256 is a fixed function of its three inputs about which the contract
\* knows nothing; a behaviour fixes one member of a small family of such
\* functions (hashSlope): slope 0 draws the same tile for every slot, slope 5
\* draws five different tiles and then the first one again, slope 1 draws 25
\* different tiles for 25 slots.
keccakMod25(ts, sender, i) == (hashSlope * i + 11 * ts + sender) % GRID_SIZE

\* Mutant: the scan looks at the previous slot only.
locationValidPreviousOnly(mineLocations, i, mineLocation) ==
    \A j \in (i - 1) .. (i - 1) : j < 0 \/ mineLocations[j] # mineLocation

\* for (j = 0; j < i; j++) if (mineLocations[j] == mineLocation) locationValid = false
locationValid(mineLocations, i, mineLocation) ==
    \A j \in 0 .. (i - 1) : mineLocations[j] # mineLocation

\* Mutant: a draw that collides moves on to the lowest free tile, so what a
\* slot gets depends on the slots before it.
drawSlotNextFree(sender, mineLocations, i, gas) ==
    LET mineLocation == keccakMod25(timestamp, sender, i)
        free == {t \in Tiles : locationValid(mineLocations, i, t)}
    IN
    IF locationValid(mineLocations, i, mineLocation) THEN Ok(mineLocation)
    ELSE IF free = {} THEN Panic
    ELSE Ok(CHOOSE t \in free : \A u \in free : t <= u)

\* do { ... } while (!locationValid) for slot i.  Each iteration hashes the
\* same (block.timestamp, msg.sender, i), so a draw that collides is drawn
\* again; the loop ends only when the gas is gone (result "OutOfGas").
RECURSIVE drawSlot(_, _, _, _)
drawSlot(sender, mineLocations, i, gas) ==
    LET mineLocation == keccakMod25(timestamp, sender, i) IN
    IF locationValid(mineLocations, i, mineLocation) THEN Ok(mineLocation)
    ELSE IF gas = 0 THEN Panic
    ELSE drawSlot(sender, mineLocations, i, gas - 1)

\* for (uint8 i = 0; i < numberOfMines; i++) { ...; mineLocations[i] = mineLocation; }
RECURSIVE placeMines(_, _, _, _)
placeMines(sender, numberOfMines, mineLocations, i) ==
    IF i >= numberOfMines THEN Ok(mineLocations)
    ELSE LET d == drawSlot(sender, mineLocations, i, GasRetries) IN
         IF ~d.ok THEN Panic
         ELSE placeMines(sender, numberOfMines,
                         [j \in 0 .. i |-> IF j = i THEN d.val ELSE mineLocations[j]],
                         i + 1)

\* ------------------------------------------------------------------------
\* startGame
\* ------------------------------------------------------------------------

\* Mutant: the require on isActive is missing.
startGameRequireNoExclusivity(sender, value, numberOfMines) ==
    IF ~(value > 0) THEN "Bet amount must be greater than 0"
    ELSE IF ~(numberOfMines >= MIN_MINES /\ numberOfMines <= MAX_MINES)
        THEN "Mines must be between 1 and 24"
    ELSE ""

\* Mutant: the mine count is compared with 25 instead of 24.
startGameRequireOffByOne(sender, value, numberOfMines) ==
    IF ~(value > 0) THEN "Bet amount must be greater than 0"
    ELSE IF ~(numberOfMines >= MIN_MINES /\ numberOfMines <= MAX_MINES + 1)
        THEN "Mines must be between 1 and 24"
    ELSE IF games[sender].isActive THEN "Player already has an active game"
    ELSE ""

\* The three require statements, in order; "" when all pass.
startGameRequire(sender, value, numberOfMines) ==
    IF ~(value > 0) THEN "Bet amount must be greater than 0"
    ELSE IF ~(numberOfMines >= MIN_MINES /\ numberOfMines <= MAX_MINES)
        THEN "Mines must be between 1 and 24"
    ELSE IF games[sender].isActive THEN "Player already has an active game"
    ELSE ""

\* Mutant: the reveal flags of the previous round are kept.
newGameKeepsFlags(sender, value, numberOfMines, mineLocations) ==
    [player |-> sender, betAmount |-> value, totalMines |-> numberOfMines,
     revealedSafeTiles |-> 0,
     revealedTiles |-> IF games[sender].player = 0
                       THEN [t \in Tiles |-> FALSE]
                       ELSE games[sender].revealedTiles,
     mineLocations |-> mineLocations, isActive |-> TRUE]

\* games[msg.sender] = Game({...})
newGame(sender, value, numberOfMines, mineLocations) ==
    [player |-> sender, betAmount |-> value, totalMines |-> numberOfMines,
     revealedSafeTiles |-> 0,
     revealedTiles |-> [t \in Tiles |-> FALSE],
     mineLocations |-> mineLocations, isActive |-> TRUE]

\* Mutant: = instead of +=.
poolAfterStakeAssigned(pool, value) == value

\* sharedPoolBalance += msg.value
poolAfterStake(pool, value) == pool + value

Call(op, sender, value, arg, result, paid, won) ==
    [op |-> op, caller |-> sender, value |-> value, arg |-> arg,
     result |-> result, paid |-> paid, won |-> won]

Reverted(op, sender, value, arg, reason) ==
    /\ lastCall' = Call(op, sender, value, arg, reason, 0, 0)
    /\ UNCHANGED <<games, sharedPoolBalance, balance, timestamp, hashSlope,
                   deposits>>

\* Mutant: one game slot for the whole contract instead of one per address.
gamesAfterStartSingleSlot(sender, game) == [p \in Players |-> game]

\* games[msg.sender] = ...: the slot of the caller, no other.
gamesAfterStart(sender, game) == [games EXCEPT ![sender] = game]

startGame(sender, value, numberOfMines) ==
    LET why == startGameRequire(sender, value, numberOfMines) IN
    IF why # "" THEN Reverted("startGame", sender, value, numberOfMines, why)
    ELSE LET placed == placeMines(sender, numberOfMines, << >>, 0) IN
         IF ~placed.ok
         THEN Reverted("startGame", sender, value, numberOfMines, "OutOfGas")
         ELSE /\ games' = gamesAfterStart(sender,
                              newGame(sender, value, numberOfMines, placed.val))
              /\ sharedPoolBalance' = poolAfterStake(sharedPoolBalance, value)
              /\ balance' = balance + value
              /\ deposits' = deposits + 1
              /\ lastCall' = Call("startGame", sender, value, numberOfMines, "ok", 0, 0)
              /\ UNCHANGED <<timestamp, hashSlope>>

StartGame ==
    \E sender \in Players, value \in StakeInputs, numberOfMines \in MineInputs :
        /\ sharedPoolBalance + value <= MaxPool
        /\ deposits < MaxDeposits
        /\ startGame(sender, value, numberOfMines)
        /\ UNCHANGED ui

\* ------------------------------------------------------------------------
\* revealTile
\* ------------------------------------------------------------------------

\* Mutant: the require on the reveal flag is missing.
revealTileRequireNoRepeat(sender, tileIndex) ==
    IF ~(tileIndex < GRID_SIZE) THEN "Invalid tile index"
    ELSE IF ~games[sender].isActive THEN "No active game"
    ELSE ""

\* Mutant: the require on isActive is missing; a record never written has no
\* reveal flags, and indexing them aborts.
revealTileRequireNoActive(sender, tileIndex) ==
    IF ~(tileIndex < GRID_SIZE) THEN "Invalid tile index"
    ELSE IF tileIndex \notin DOMAIN games[sender].revealedTiles THEN "Panic"
    ELSE IF games[sender].revealedTiles[tileIndex] THEN "Tile already revealed"
    ELSE ""

\* Mutant: a reveal is accepted only while the pool covers the stake.
revealTileRequireSolvent(sender, tileIndex) ==
    IF ~(tileIndex < GRID_SIZE) THEN "Invalid tile index"
    ELSE IF ~games[sender].isActive THEN "No active game"
    ELSE IF games[sender].revealedTiles[tileIndex] THEN "Tile already revealed"
    ELSE IF sharedPoolBalance < games[sender].betAmount THEN "Pool cannot pay"
    ELSE ""

\* The three require statements, in order; "" when all pass.  The third one
\* indexes revealedTiles, which has 25 entries in every record startGame wrote.
revealTileRequire(sender, tileIndex) ==
    IF ~(tileIndex < GRID_SIZE) THEN "Invalid tile index"
    ELSE IF ~games[sender].isActive THEN "No active game"
    ELSE IF games[sender].revealedTiles[tileIndex] THEN "Tile already revealed"
    ELSE ""

\* Mutant: the scan stops one slot early.
isMineOneShort(game, tileIndex) ==
    \E i \in 0 .. (game.totalMines - 2) : game.mineLocations[i] = tileIndex

\* for (i = 0; i < game.totalMines; i++) if (game.mineLocations[i] == tileIndex) isMine = true
isMine(game, tileIndex) ==
    \E i \in 0 .. (game.totalMines - 1) : game.mineLocations[i] = tileIndex

\* Mutant: the loss does not end the game (line 92 missing).
gameAfterRevealKeepsActive(game, tileIndex) ==
    LET marked == [game EXCEPT !.revealedTiles[tileIndex] = TRUE] IN
    IF isMine(marked, tileIndex)
    THEN marked
    ELSE [marked EXCEPT !.revealedSafeTiles = @ + 1]

\* Mutant: the counter is incremented before the mine check, so a mine counts.
gameAfterRevealCountsMine(game, tileIndex) ==
    LET marked == [game EXCEPT !.revealedTiles[tileIndex] = TRUE,
                               !.revealedSafeTiles = @ + 1] IN
    IF isMine(marked, tileIndex)
    THEN [marked EXCEPT !.isActive = FALSE]
    ELSE marked

\* Mutant: the flag is set in the safe branch only.
gameAfterRevealFlagsSafeOnly(game, tileIndex) ==
    IF isMine(game, tileIndex)
    THEN [game EXCEPT !.isActive = FALSE]
    ELSE [game EXCEPT !.revealedTiles[tileIndex] = TRUE,
                      !.revealedSafeTiles = @ + 1]

\* The record after the reveal: the flag, then either the loss or the counter.
gameAfterReveal(game, tileIndex) ==
    LET marked == [game EXCEPT !.revealedTiles[tileIndex] = TRUE] IN
    IF isMine(marked, tileIndex)
    THEN [marked EXCEPT !.isActive = FALSE]
    ELSE [marked EXCEPT !.revealedSafeTiles = @ + 1]

\* Mutant: a losing reveal hands the stake back.
revealTileRefundsLoss(sender, tileIndex) ==
    LET why == revealTileRequire(sender, tileIndex)
        lost == isMine(games[sender], tileIndex)
        refund == IF lost THEN games[sender].betAmount ELSE 0
    IN
    IF why # "" THEN Reverted("revealTile", sender, 0, tileIndex, why)
    ELSE IF refund > sharedPoolBalance
        THEN Reverted("revealTile", sender, 0, tileIndex, "Panic")
    ELSE /\ games' = [games EXCEPT ![sender] = gameAfterReveal(@, tileIndex)]
         /\ sharedPoolBalance' = sharedPoolBalance - refund
         /\ balance' = balance - refund
         /\ lastCall' = Call("revealTile", sender, 0, tileIndex, "ok", refund, 0)
         /\ UNCHANGED <<timestamp, hashSlope, deposits>>

revealTile(sender, tileIndex) ==
    LET why == revealTileRequire(sender, tileIndex) IN
    IF why # "" THEN Reverted("revealTile", sender, 0, tileIndex, why)
    ELSE /\ games' = [games EXCEPT ![sender] = gameAfterReveal(@, tileIndex)]
         /\ lastCall' = Call("revealTile", sender, 0, tileIndex, "ok", 0, 0)
         /\ UNCHANGED <<sharedPoolBalance, balance, timestamp, hashSlope, deposits>>

RevealTile ==
    \E sender \in Players, tileIndex \in TileInputs :
        revealTile(sender, tileIndex) /\ UNCHANGED ui

\* ------------------------------------------------------------------------
\* calculateWinnings (public pure) and cashOut
\* ------------------------------------------------------------------------

\* uint256 multiplier = (25 - totalMines) * revealedSafeTiles / 25: both operands
\* are uint8, so the subtraction, the product and the quotient are computed in
\* uint8 with checked arithmetic and only the result is widened to uint256.
multiplierOf(totalMines, revealedSafeTiles) ==
    IF totalMines > GRID_SIZE THEN Panic
    ELSE IF (GRID_SIZE - totalMines) * revealedSafeTiles > UINT8_MAX THEN Panic
    ELSE Ok(((GRID_SIZE - totalMines) * revealedSafeTiles) \div GRID_SIZE)

\* betAmount * multiplier is a uint256 product; the bets of this model are far
\* below the width, so it never aborts here.
calculateWinnings(betAmount, totalMines, revealedSafeTiles) ==
    IF revealedSafeTiles = 0 THEN Ok(0)
    ELSE LET multiplier == multiplierOf(totalMines, revealedSafeTiles) IN
         IF ~multiplier.ok THEN Panic
         ELSE Ok((betAmount * multiplier.val) \div PERCENT)

\* Mutant: the require on isActive is missing.
cashOutRequireNoActive(sender) ==
    IF ~(games[sender].revealedSafeTiles > 0)
        THEN "Must reveal at least one safe tile"
    ELSE ""

\* Mutant: the require on revealedSafeTiles is missing.
cashOutRequireNoSafeTile(sender) ==
    IF ~games[sender].isActive THEN "No active game"
    ELSE ""

\* The two require statements of cashOut; "" when both pass.
cashOutRequire(sender) ==
    IF ~games[sender].isActive THEN "No active game"
    ELSE IF ~(games[sender].revealedSafeTiles > 0)
        THEN "Must reveal at least one safe tile"
    ELSE ""

\* Mutant: a short pool takes the winnings away altogether.
clampWinningsToZero(winnings, betAmount, pool) ==
    IF winnings + betAmount > pool
    THEN IF pool < betAmount THEN Panic ELSE Ok(0)
    ELSE Ok(winnings)

\* Mutant: the comparison is the wrong way round.
clampWinningsInverted(winnings, betAmount, pool) ==
    IF winnings + betAmount < pool
    THEN IF pool < betAmount THEN Panic ELSE Ok(pool - betAmount)
    ELSE Ok(winnings)

\* if (winnings + game.betAmount > sharedPoolBalance)
\*     winnings = sharedPoolBalance - game.betAmount;      (checked uint256)
clampWinnings(winnings, betAmount, pool) ==
    IF winnings + betAmount > pool
    THEN IF pool < betAmount THEN Panic ELSE Ok(pool - betAmount)
    ELSE Ok(winnings)

\* Mutant: only the winnings are taken from the pool, the stake is not.
poolAfterPayoutWinningsOnly(pool, betAmount, winnings) ==
    IF winnings > pool THEN Panic ELSE Ok(pool - winnings)

\* Mutant: the subtraction is unchecked and takes the stake a second time.
poolAfterPayoutUncheckedTwice(pool, betAmount, winnings) ==
    Ok(pool - (betAmount + winnings) - betAmount)

\* sharedPoolBalance -= (game.betAmount + winnings);             (checked uint256)
poolAfterPayout(pool, betAmount, winnings) ==
    IF betAmount + winnings > pool THEN Panic
    ELSE Ok(pool - (betAmount + winnings))

\* Mutant: the outcome of the payment is not looked at (send instead of transfer).
transferOkUnchecked(amount, accepts) == amount <= balance

\* payable(msg.sender).transfer(amount): fails when the contract does not hold
\* the amount or when the payee does not accept it.
transferOk(amount, accepts) == amount <= balance /\ accepts

\* Mutant: the record is deleted at cash-out (delete games[msg.sender]).
gameAfterCashOutDeleted(game) == NoGame

\* Mutant: the game is not ended (line 114 missing).
gameAfterCashOutStillActive(game) == game

\* game.isActive = false, the only write of cashOut to the record.
gameAfterCashOut(game) == [game EXCEPT !.isActive = FALSE]

\* Mutant: the event carries the value calculateWinnings returned.
gameWonValueTheoretical(theoretical, realized) == theoretical

\* emit GameWon(msg.sender, winnings): winnings is the variable the clamp
\* has overwritten.
gameWonValue(theoretical, realized) == realized

\* lastCall.paid is the amount transferred, lastCall.won the value of GameWon.
cashOut(sender, accepts) ==
    LET game == games[sender]
        why == cashOutRequire(sender)
        theoretical == calculateWinnings(game.betAmount, game.totalMines,
                                         game.revealedSafeTiles)
        winnings == IF theoretical.ok
                    THEN clampWinnings(theoretical.val, game.betAmount, sharedPoolBalance)
                    ELSE Panic
        left == IF winnings.ok
                THEN poolAfterPayout(sharedPoolBalance, game.betAmount, winnings.val)
                ELSE Panic
    IN
    IF why # "" THEN Reverted("cashOut", sender, 0, accepts, why)
    ELSE IF ~winnings.ok THEN Reverted("cashOut", sender, 0, accepts, "Panic")
    ELSE IF ~left.ok THEN Reverted("cashOut", sender, 0, accepts, "Panic")
    ELSE IF ~transferOk(game.betAmount + winnings.val, accepts)
        THEN Reverted("cashOut", sender, 0, accepts, "TransferFailed")
    ELSE /\ games' = [games EXCEPT ![sender] = gameAfterCashOut(@)]
         /\ sharedPoolBalance' = left.val
         /\ balance' = balance - (game.betAmount + winnings.val)
         /\ lastCall' = Call("cashOut", sender, 0, accepts, "ok",
                             game.betAmount + winnings.val,
                             gameWonValue(theoretical.val, winnings.val))
         /\ UNCHANGED <<timestamp, hashSlope, deposits>>

CashOut ==
    \E sender \in Players, accepts \in BOOLEAN :
        cashOut(sender, accepts) /\ UNCHANGED ui

\* A direct call of the public pure function: the call is pending with its
\* arguments, then it returns or aborts.
CalculateWinnings ==
    /\ lastCall.op = "calculateWinnings"
    /\ lastCall.result = "pending"
    /\ LET r == calculateWinnings(lastCall.value, lastCall.arg[1], lastCall.arg[2]) IN
       lastCall' = [lastCall EXCEPT !.result = IF r.ok THEN "ok" ELSE "Panic",
                                    !.won = r.val]
    /\ UNCHANGED <<games, sharedPoolBalance, balance, timestamp, hashSlope,
                   deposits, ui>>

\* ------------------------------------------------------------------------
\* addHouseFunds, withdrawHouseFunds
\* ------------------------------------------------------------------------

\* Mutant: the value is accepted and the pool is not credited.
addHouseFundsNotCredited(sender, value) ==
    /\ sharedPoolBalance' = sharedPoolBalance
    /\ balance' = balance + value
    /\ deposits' = deposits + 1
    /\ lastCall' = Call("addHouseFunds", sender, value, 0, "ok", 0, 0)
    /\ UNCHANGED <<games, timestamp, hashSlope>>

\* sharedPoolBalance += msg.value; the call is payable, so the contract holds
\* msg.value more.
addHouseFunds(sender, value) ==
    /\ sharedPoolBalance' = sharedPoolBalance + value
    /\ balance' = balance + value
    /\ deposits' = deposits + 1
    /\ lastCall' = Call("addHouseFunds", sender, value, 0, "ok", 0, 0)
    /\ UNCHANGED <<games, timestamp, hashSlope>>

AddHouseFunds ==
    \E sender \in Players, value \in FundInputs :
        /\ sharedPoolBalance + value <= MaxPool
        /\ deposits < MaxDeposits
        /\ addHouseFunds(sender, value)
        /\ UNCHANGED ui

\* Mutant: the access control the comment speaks of ("owner only"), the owner
\* being the lowest address.
withdrawHouseFundsOwnerOnly(sender, accepts) ==
    IF \E q \in Players : q < sender
    THEN Reverted("withdrawHouseFunds", sender, 0, accepts, "Not owner")
    ELSE IF ~(sharedPoolBalance <= balance /\ accepts)
    THEN Reverted("withdrawHouseFunds", sender, 0, accepts, "TransferFailed")
    ELSE /\ sharedPoolBalance' = 0
         /\ balance' = balance - sharedPoolBalance
         /\ lastCall' = Call("withdrawHouseFunds", sender, 0, accepts, "ok",
                             sharedPoolBalance, 0)
         /\ UNCHANGED <<games, timestamp, hashSlope, deposits>>

\* payable(msg.sender).transfer(sharedPoolBalance); sharedPoolBalance = 0;
\* no require on the caller.
withdrawHouseFunds(sender, accepts) ==
    IF ~transferOk(sharedPoolBalance, accepts)
    THEN Reverted("withdrawHouseFunds", sender, 0, accepts, "TransferFailed")
    ELSE /\ sharedPoolBalance' = 0
         /\ balance' = balance - sharedPoolBalance
         /\ lastCall' = Call("withdrawHouseFunds", sender, 0, accepts, "ok",
                             sharedPoolBalance, 0)
         /\ UNCHANGED <<games, timestamp, hashSlope, deposits>>

WithdrawHouseFunds ==
    \E sender \in Players, accepts \in BOOLEAN :
        withdrawHouseFunds(sender, accepts) /\ UNCHANGED ui

\* ------------------------------------------------------------------------
\* getGameStatus, getSharedPoolBalance (external view)
\* ------------------------------------------------------------------------

\* Mutant: the record of msg.sender instead of the record asked for.
getGameStatusOfCaller(sender, player) ==
    /\ lastCall' = Call("getGameStatus", sender, 0, player, "ok", 0, games[sender])
    /\ UNCHANGED <<games, sharedPoolBalance, balance, timestamp, hashSlope,
                   deposits>>

\* return games[player]: the stored record, the mapping default when the slot
\* was never written; lastCall.won carries the value returned.
getGameStatus(sender, player) ==
    /\ lastCall' = Call("getGameStatus", sender, 0, player, "ok", 0, games[player])
    /\ UNCHANGED <<games, sharedPoolBalance, balance, timestamp, hashSlope,
                   deposits>>

GetGameStatus ==
    \E sender \in Players, player \in Players :
        getGameStatus(sender, player) /\ UNCHANGED ui

\* return sharedPoolBalance
getSharedPoolBalance(sender) ==
    /\ lastCall' = Call("getSharedPoolBalance", sender, 0, 0, "ok", 0,
                        sharedPoolBalance)
    /\ UNCHANGED <<games, sharedPoolBalance, balance, timestamp, hashSlope,
                   deposits>>

GetSharedPoolBalance ==
    \E sender \in Players : getSharedPoolBalance(sender) /\ UNCHANGED ui

\* ------------------------------------------------------------------------
\* The chain: a new block begins, with a later timestamp.
\* ------------------------------------------------------------------------
NextBlock ==
    /\ timestamp < MaxTime
    /\ timestamp' = timestamp + 1
    /\ lastCall' = Call("block", 0, 0, 0, "ok", 0, 0)
    /\ UNCHANGED <<games, sharedPoolBalance, balance, hashSlope, deposits, ui>>

\* ------------------------------------------------------------------------
\* One player's rounds in depth: every mine count of RoundMineInputs, every
\* keccak256 stand-in, later blocks, and reveals that sweep the board.
\* ------------------------------------------------------------------------
RoundPlayer == CHOOSE p \in Players : \A q \in Players : p <= q

\* The tiles the player asks for: the lowest tile not yet revealed, tile 0
\* again, the tiles of the first and of the last mine slot, and an index
\* out of range.
RoundTileInputs ==
    LET game == games[RoundPlayer]
        hidden == {t \in Tiles : t \in DOMAIN game.revealedTiles
                                 /\ ~game.revealedTiles[t]}
        lowest == IF hidden = {} THEN {}
                  ELSE {CHOOSE t \in hidden : \A u \in hidden : t <= u}
        slots == IF game.totalMines = 0 THEN {}
                 ELSE {game.mineLocations[0],
                       game.mineLocations[game.totalMines - 1]}
    IN lowest \cup slots \cup {0, GRID_SIZE}

RoundStartGame ==
    \E value \in StakeInputs, numberOfMines \in RoundMineInputs :
        /\ sharedPoolBalance + value <= MaxPool
        /\ deposits < MaxDeposits
        /\ startGame(RoundPlayer, value, numberOfMines)
        /\ UNCHANGED ui

RoundRevealTile ==
    \E tileIndex \in RoundTileInputs :
        revealTile(RoundPlayer, tileIndex) /\ UNCHANGED ui

RoundCashOut ==
    \E accepts \in BOOLEAN : cashOut(RoundPlayer, accepts) /\ UNCHANGED ui

RoundAddHouseFunds ==
    \E value \in FundInputs :
        /\ sharedPoolBalance + value <= MaxPool
        /\ deposits < MaxDeposits
        /\ addHouseFunds(RoundPlayer, value)
        /\ UNCHANGED ui

RoundWithdrawHouseFunds ==
    \E accepts \in BOOLEAN :
        withdrawHouseFunds(RoundPlayer, accepts) /\ UNCHANGED ui

\* ------------------------------------------------------------------------
\* The Game component (React) of the player's browser and the reads of
\* config.js it is built on.  A handler is one action: the transaction it
\* sends, the reads that follow and the component state it sets.
\* ------------------------------------------------------------------------

\* What the network does to the reads of one fetchAndUpdateState: all of them
\* answer, or one of them fails.
NetOutcomes == {"ok", "statusFails", "poolFails", "winningsFails", "walletFails"}

\* The tiles of the board that can be clicked.
UiTileInputs == TileInputs \cap Tiles

\* readGameStatus: the record of the ledger, field by field (the numbers go
\* through toString and Number, which keep them), or null when the call fails.
readGameStatus(game, net) ==
    IF net = "statusFails" THEN Null
    ELSE Some([player |-> game.player, betAmount |-> game.betAmount,
               totalMines |-> game.totalMines,
               revealedSafeTiles |-> game.revealedSafeTiles,
               revealedTiles |-> game.revealedTiles,
               mineLocations |-> game.mineLocations,
               isActive |-> game.isActive])

\* getSharedPoolBalance of config.js: the pool, 0n when the call fails.
readSharedPoolBalance(pool, net) ==
    IF net = "poolFails" THEN 0 ELSE pool

\* calculateCurrentWinnings: 0n without a safe tile, else what the contract's
\* calculateWinnings returns, 0n when the call fails or aborts.
calculateCurrentWinnings(gameData, net) ==
    IF gameData.revealedSafeTiles = 0 THEN 0
    ELSE IF net = "winningsFails" THEN 0
    ELSE LET winnings == calculateWinnings(gameData.betAmount, gameData.totalMines,
                                           gameData.revealedSafeTiles) IN
         IF winnings.ok THEN winnings.val ELSE 0

\* The profit fetchAndUpdateState shows for an active game (BigInt arithmetic,
\* which does not wrap): the pool less the stake caps the payout, and the
\* stake is taken from the capped payout once more.
liveProfitOf(betAmount, theoreticalProfit, poolBalance) ==
    LET theoreticalPayout == betAmount + theoreticalProfit
        effectivePoolBalance == poolBalance - betAmount
        actualPayout == IF theoreticalPayout > effectivePoolBalance
                        THEN effectivePoolBalance
                        ELSE theoreticalPayout
        actualProfit == actualPayout - betAmount
    IN IF actualProfit < 0 THEN 0 ELSE actualProfit

\* fetchAndUpdateState(acc) on the ledger record and the pool given: the
\* component state it leaves and the status it returns.  When
\* getWalletBalance rejects, Promise.all rejects, nothing is set and
\* undefined is returned.
fetchAndUpdateState(state, game, pool, net) ==
    IF net = "walletFails"
    THEN [ui |-> [state EXCEPT !.fetched = net], status |-> Null]
    ELSE LET status == readGameStatus(game, net)
             poolBalance == readSharedPoolBalance(pool, net)
         IN
         IF status # Null /\ ValueOf(status).isActive
         THEN [ui |-> [state EXCEPT
                          !.game = status,
                          !.liveProfit =
                              liveProfitOf(ValueOf(status).betAmount,
                                           calculateCurrentWinnings(ValueOf(status), net),
                                           poolBalance),
                          !.fetched = net],
               status |-> status]
         ELSE [ui |-> [state EXCEPT !.game = Null, !.liveProfit = 0,
                                    !.fetched = net],
               status |-> status]

\* game?.isActive
UiGameActive == ui.game # Null /\ ValueOf(ui.game).isActive

\* connectWallet, accountsChanged: the state is fetched, the ledger is not
\* written.
ConnectWallet ==
    \E net \in NetOutcomes :
        /\ ui' = fetchAndUpdateState(ui, games[RoundPlayer], sharedPoolBalance, net).ui
        /\ UNCHANGED <<games, sharedPoolBalance, balance, timestamp, hashSlope,
                       deposits, lastCall>>

\* onStartGame (the button is disabled while game?.isActive): the
\* transaction, then the fetch; on a failure setGame(null).
onStartGame ==
    \E value \in StakeInputs, mineCount \in MineInputs, net \in NetOutcomes :
        /\ ~UiGameActive
        /\ sharedPoolBalance + value <= MaxPool
        /\ deposits < MaxDeposits
        /\ startGame(RoundPlayer, value, mineCount)
        /\ ui' = IF lastCall'.result = "ok"
                 THEN fetchAndUpdateState(ui, games'[RoundPlayer],
                                          sharedPoolBalance', net).ui
                 ELSE [ui EXCEPT !.game = Null]

\* onRevealTile(index): returns at once unless game?.isActive; the
\* transaction, the fetch, and the loss modal if (!newStatus || !newStatus.isActive).
onRevealTile ==
    \E index \in UiTileInputs, net \in NetOutcomes :
        /\ UiGameActive
        /\ revealTile(RoundPlayer, index)
        /\ ui' = IF lastCall'.result = "ok"
                 THEN LET fetched == fetchAndUpdateState(ui, games'[RoundPlayer],
                                                         sharedPoolBalance', net)
                      IN IF fetched.status = Null \/ ~ValueOf(fetched.status).isActive
                         THEN [fetched.ui EXCEPT
                                  !.modal = [isOpen |-> TRUE, isWin |-> FALSE,
                                             amount |-> 0]]
                         ELSE fetched.ui
                 ELSE ui

\* onCashOut: returns at once if (!game || game.revealedSafeTiles === 0);
\* expectedPayout is taken from the component state before the transaction
\* and shown in the win modal after it.
onCashOut ==
    \E accepts \in BOOLEAN, net \in NetOutcomes :
        /\ ui.game # Null
        /\ ValueOf(ui.game).revealedSafeTiles # 0
        /\ cashOut(RoundPlayer, accepts)
        /\ LET expectedPayout == ValueOf(ui.game).betAmount + ui.liveProfit IN
           ui' = IF lastCall'.result = "ok"
                 THEN [fetchAndUpdateState(ui, games'[RoundPlayer],
                                           sharedPoolBalance', net).ui
                          EXCEPT !.modal = [isOpen |-> TRUE, isWin |-> TRUE,
                                            amount |-> expectedPayout]]
                 ELSE ui

\* The button of the modal: setModalState({ isOpen: false, isWin: false, amount: '0' }).
closeModal ==
    /\ ui.modal.isOpen
    /\ ui' = [ui EXCEPT !.modal = ClosedModal]
    /\ UNCHANGED <<games, sharedPoolBalance, balance, timestamp, hashSlope,
                   deposits, lastCall>>

\* ------------------------------------------------------------------------
\* Specifications
\* ------------------------------------------------------------------------
InitWith(slopes) ==
    /\ games = [p \in Players |-> NoGame]
    /\ sharedPoolBalance = 0
    /\ balance = 0
    /\ timestamp = 0
    /\ hashSlope \in slopes
    /\ deposits = 0
    /\ lastCall = Call("constructor", 0, 0, 0, "ok", 0, 0)
    /\ ui = NoUi

\* The ledger with two players inside one block.  With at most one mine per
\* game the stand-ins agree, so one of them is enough.
Init == InitWith({1})

Next ==
    \/ StartGame
    \/ RevealTile
    \/ CashOut
    \/ AddHouseFunds
    \/ WithdrawHouseFunds
    \/ GetGameStatus
    \/ GetSharedPoolBalance

Spec == Init /\ [][Next]_vars

\* One player's rounds in depth.
InitRound == InitWith(HashSlopes)

NextRound ==
    \/ RoundStartGame
    \/ RoundRevealTile
    \/ RoundCashOut
    \/ RoundAddHouseFunds
    \/ RoundWithdrawHouseFunds
    \/ NextBlock

SpecRound == InitRound /\ [][NextRound]_vars

\* The pure payout function on its own: every input of the bounded sets.
InitPayout ==
    /\ games = [p \in Players |-> NoGame]
    /\ sharedPoolBalance = 0
    /\ balance = 0
    /\ timestamp = 0
    /\ hashSlope = 1
    /\ deposits = 0
    /\ ui = NoUi
    /\ \E betAmount \in BetInputs, totalMines \in 0 .. GRID_SIZE,
          revealedSafeTiles \in 0 .. GRID_SIZE :
           lastCall = Call("calculateWinnings", 0, betAmount,
                           <<totalMines, revealedSafeTiles>>, "pending", 0, 0)

NextPayout == CalculateWinnings

SpecPayout == InitPayout /\ [][NextPayout]_vars

\* One player in the browser, and the pool topped up from outside.
InitUi == InitWith({1})

NextUi ==
    \/ ConnectWallet
    \/ onStartGame
    \/ onRevealTile
    \/ onCashOut
    \/ closeModal
    \/ AddHouseFunds

SpecUi == InitUi /\ [][NextUi]_vars

\* ========================================================================
\* Properties
\* ========================================================================
Caller == lastCall'.caller
MineSet(game) == {game.mineLocations[i] : i \in DOMAIN game.mineLocations}
RevealedSet(game) == {t \in DOMAIN game.revealedTiles : game.revealedTiles[t]}
StorageUnchanged == UNCHANGED <<games, sharedPoolBalance, balance>>

\* The last round of player p ended in a cashOut: a record that startGame
\* wrote, inactive, with no mine revealed.
CashedOut(p) ==
    /\ games[p].player = p
    /\ ~games[p].isActive
    /\ RevealedSet(games[p]) \cap MineSet(games[p]) = {}

\* A cashOut call by a player whose game is active with at least one safe
\* tile revealed, and who accepts the payment.
CashOutCalled ==
    /\ lastCall'.op = "cashOut"
    /\ lastCall'.arg = TRUE
    /\ games[Caller].isActive
    /\ games[Caller].revealedSafeTiles > 0

\* What calculateWinnings gives for a record, as the specification states it.
TheoreticalWinnings(game) ==
    IF game.revealedSafeTiles = 0 THEN 0
    ELSE (game.betAmount
            * (((GRID_SIZE - game.totalMines) * game.revealedSafeTiles) \div GRID_SIZE))
         \div PERCENT

\* C1: whenever a player whose game is active with revealedSafeTiles > 0, and
\* who can receive funds, calls cashOut, the call is not rejected, the game
\* ends and at least the stake is disbursed.
C1_CashOutAnyTime ==
    [][CashOutCalled =>
          /\ lastCall'.result = "ok"
          /\ ~games'[Caller].isActive
          /\ lastCall'.paid >= games[Caller].betAmount]_vars

\* C2: for totalMines in 1..24 and revealedSafeTiles in 0..(25 - totalMines),
\* calculateWinnings returns, without aborting, 0 when revealedSafeTiles = 0
\* and floor(betAmount * floor((25 - totalMines) * revealedSafeTiles / 25) / 100)
\* otherwise.
C2_PayoutFormula ==
    (/\ lastCall.op = "calculateWinnings"
     /\ lastCall.result # "pending"
     /\ lastCall.arg[1] \in MIN_MINES .. MAX_MINES
     /\ lastCall.arg[2] \in 0 .. (GRID_SIZE - lastCall.arg[1]))
    => /\ lastCall.result = "ok"
       /\ lastCall.won =
            IF lastCall.arg[2] = 0 THEN 0
            ELSE (lastCall.value
                    * (((GRID_SIZE - lastCall.arg[1]) * lastCall.arg[2]) \div GRID_SIZE))
                 \div PERCENT

\* C3: a cashOut called while poolBalance < betAmount is not aborted by an
\* arithmetic error: the realized winnings are floored at zero and the pool
\* balance does not become negative.
C3_InsolventCashOutNoAbort ==
    [][(CashOutCalled /\ sharedPoolBalance < games[Caller].betAmount) =>
          /\ lastCall'.result # "Panic"
          /\ lastCall'.won = 0
          /\ sharedPoolBalance' >= 0]_vars

C5_PlacementTerminates ==
    [][(/\ lastCall'.op = "startGame"
        /\ lastCall'.value > 0
        /\ lastCall'.arg \in MIN_MINES .. MAX_MINES
        /\ ~games[Caller].isActive) =>
          /\ lastCall'.result = "ok"
          /\ games'[Caller].isActive]_vars

\* C6: after a successful startGame the caller's record is active, holds the
\* stake and the mine count of the call, has revealedSafeTiles = 0 and 25
\* reveal flags all false, and its mineLocations are exactly totalMines
\* pairwise distinct values in 0..24.
C6_FreshGame ==
    (lastCall.op = "startGame" /\ lastCall.result = "ok") =>
        LET game == games[lastCall.caller] IN
        /\ game.isActive
        /\ game.player = lastCall.caller
        /\ game.betAmount = lastCall.value
        /\ game.totalMines = lastCall.arg
        /\ game.revealedSafeTiles = 0
        /\ DOMAIN game.revealedTiles = Tiles
        /\ \A t \in Tiles : ~game.revealedTiles[t]
        /\ DOMAIN game.mineLocations = 0 .. (game.totalMines - 1)
        /\ \A i \in DOMAIN game.mineLocations : game.mineLocations[i] \in Tiles
        /\ \A i, j \in DOMAIN game.mineLocations :
               i # j => game.mineLocations[i] # game.mineLocations[j]

\* C6 witness: a game with 24 mines was started after an earlier round.
C6_Witness ==
    /\ lastCall.op = "startGame"
    /\ lastCall.result = "ok"
    /\ lastCall.arg = MAX_MINES
    /\ Cardinality(MineSet(games[lastCall.caller])) = MAX_MINES
    /\ deposits >= 2

\* C7: a startGame call by a player whose game is active is rejected and
\* changes neither any record nor the pool, whatever the other players' games.
C7_Exclusivity ==
    [][(lastCall'.op = "startGame" /\ games[Caller].isActive) =>
          /\ lastCall'.result # "ok"
          /\ StorageUnchanged]_vars

\* C7 witness: a valid startGame call was rejected for an active caller while
\* the other player was active too.
C7_Witness ==
    /\ lastCall.op = "startGame"
    /\ lastCall.value > 0
    /\ lastCall.arg \in MIN_MINES .. MAX_MINES
    /\ lastCall.result = "Player already has an active game"
    /\ \A p \in Players : games[p].isActive

\* C8: a startGame call with stake 0, or with minesCount 0 or above 24, is
\* rejected and changes neither any record nor the pool.
C8_InvalidStartRejected ==
    [][(/\ lastCall'.op = "startGame"
        /\ \/ lastCall'.value = 0
           \/ lastCall'.arg = 0
           \/ lastCall'.arg > MAX_MINES) =>
          /\ lastCall'.result # "ok"
          /\ StorageUnchanged]_vars

\* C8 witness: a startGame call with a positive stake and 25 mines by an
\* inactive player was rejected.
C8_Witness ==
    /\ lastCall.op = "startGame"
    /\ lastCall.value > 0
    /\ lastCall.arg = MAX_MINES + 1
    /\ ~games[lastCall.caller].isActive
    /\ lastCall.result # "ok"

\* C9: a successful startGame increases the pool balance by exactly the stake
\* of that call.
C9_StakeIntoPool ==
    [][(lastCall'.op = "startGame" /\ lastCall'.result = "ok") =>
          sharedPoolBalance' = sharedPoolBalance + lastCall'.value]_vars

\* C9 witness: a game was started while the pool already held value.
C9_Witness ==
    /\ lastCall.op = "startGame"
    /\ lastCall.result = "ok"
    /\ sharedPoolBalance > lastCall.value

\* C10: a successful reveal of a tile outside mineLocations increments
\* revealedSafeTiles by one and leaves the game active, so that after k such
\* reveals the counter is k; a successful reveal of a tile in mineLocations
\* ends the game, marks the tile and leaves the counter as it was.
C10_RevealCounts ==
    /\ [](\A p \in Players :
            games[p].isActive =>
                games[p].revealedSafeTiles = Cardinality(RevealedSet(games[p])))
    /\ [][(lastCall'.op = "revealTile" /\ lastCall'.result = "ok") =>
            LET before == games[Caller]
                after == games'[Caller]
                tileIndex == lastCall'.arg
            IN IF tileIndex \in MineSet(before)
               THEN /\ ~after.isActive
                    /\ after.revealedTiles[tileIndex]
                    /\ after.revealedSafeTiles = before.revealedSafeTiles
               ELSE /\ after.isActive
                    /\ after.revealedSafeTiles = before.revealedSafeTiles + 1]_vars

\* C10 witness: a mine was revealed after three safe tiles, in a game with
\* more than one mine.
C10_Witness ==
    /\ lastCall.op = "revealTile"
    /\ lastCall.result = "ok"
    /\ lastCall.arg \in MineSet(games[lastCall.caller])
    /\ ~games[lastCall.caller].isActive
    /\ games[lastCall.caller].revealedSafeTiles = 3
    /\ games[lastCall.caller].totalMines > 1

\* A player who revealed a mine and has not started a new game since: the
\* record is inactive and one of its mine tiles is marked revealed.
Lost(p) == ~games[p].isActive /\ RevealedSet(games[p]) \cap MineSet(games[p]) # {}

\* C11: revealing a tile that is already revealed in the caller's active game
\* is rejected and changes no record, no counter and no balance.
C11_RepeatedRevealRejected ==
    [][(/\ lastCall'.op = "revealTile"
        /\ lastCall'.arg < GRID_SIZE
        /\ games[Caller].isActive
        /\ games[Caller].revealedTiles[lastCall'.arg]) =>
          /\ lastCall'.result # "ok"
          /\ StorageUnchanged]_vars

\* C11 witness: the second reveal of a tile was rejected in an active game.
C11_Witness ==
    /\ lastCall.op = "revealTile"
    /\ lastCall.result = "Tile already revealed"
    /\ games[lastCall.caller].isActive
    /\ games[lastCall.caller].revealedTiles[lastCall.arg]

\* C12: a reveal with tileIndex >= 25, or by a caller without an active game
\* (never started, lost or cashed out), is rejected and changes nothing.
C12_InvalidRevealRejected ==
    [][(/\ lastCall'.op = "revealTile"
        /\ \/ lastCall'.arg >= GRID_SIZE
           \/ ~games[Caller].isActive) =>
          /\ lastCall'.result # "ok"
          /\ StorageUnchanged]_vars

\* C12 witness: a reveal of a tile in range was rejected for one caller whose
\* record was never written, while the other caller's game had ended.
C12_Witness ==
    /\ lastCall.op = "revealTile"
    /\ lastCall.arg < GRID_SIZE
    /\ lastCall.result = "No active game"
    /\ games[lastCall.caller] = NoGame
    /\ \E p \in Players : games[p] # NoGame /\ ~games[p].isActive

\* C13: no reveal, safe or mine, accepted or rejected, changes the pool
\* balance or pays anything out.
C13_RevealKeepsPool ==
    [][lastCall'.op = "revealTile" =>
          /\ sharedPoolBalance' = sharedPoolBalance
          /\ balance' = balance
          /\ lastCall'.paid = 0]_vars

\* C13 witness: a mine was revealed and the stake is still in the pool.
C13_Witness ==
    /\ lastCall.op = "revealTile"
    /\ lastCall.result = "ok"
    /\ Lost(lastCall.caller)
    /\ sharedPoolBalance >= games[lastCall.caller].betAmount
    /\ sharedPoolBalance > 0

\* C14: a successful reveal of a mine makes the player Lost; a Lost player
\* stays Lost until a startGame call of that player goes through; every
\* cashOut and revealTile call of a Lost player is rejected and changes nothing.
C14_LostUntilRestart ==
    [][\A p \in Players :
          /\ (/\ lastCall'.op = "revealTile"
              /\ lastCall'.result = "ok"
              /\ Caller = p
              /\ lastCall'.arg \in MineSet(games[p])) => Lost(p)'
          /\ (/\ Lost(p)
              /\ ~(/\ lastCall'.op = "startGame"
                   /\ lastCall'.result = "ok"
                   /\ Caller = p)) => Lost(p)'
          /\ (/\ Lost(p)
              /\ Caller = p
              /\ lastCall'.op \in {"cashOut", "revealTile"}) =>
                 /\ lastCall'.result # "ok"
                 /\ StorageUnchanged]_vars

\* C14 witness: a cashOut was rejected for a player who lost with a safe tile
\* revealed.
C14_Witness ==
    /\ lastCall.op = "cashOut"
    /\ lastCall.result = "No active game"
    /\ Lost(lastCall.caller)
    /\ games[lastCall.caller].revealedSafeTiles > 0

\* C15: a cashOut call of a player whose game is active with
\* revealedSafeTiles = 0 is rejected and changes nothing.
C15_CashOutNeedsSafeTile ==
    [][(/\ lastCall'.op = "cashOut"
        /\ games[Caller].isActive
        /\ games[Caller].revealedSafeTiles = 0) =>
          /\ lastCall'.result # "ok"
          /\ StorageUnchanged
          /\ games'[Caller].isActive]_vars

\* C15 witness: such a call was rejected while the pool held the stake.
C15_Witness ==
    /\ lastCall.op = "cashOut"
    /\ lastCall.arg = TRUE
    /\ lastCall.result = "Must reveal at least one safe tile"
    /\ games[lastCall.caller].isActive
    /\ sharedPoolBalance >= games[lastCall.caller].betAmount

\* C16: a successful cashOut ends the caller's game, takes exactly
\* betAmount + realized winnings from the pool and pays exactly that amount to
\* the caller.
C16_CashOutSettles ==
    [][(lastCall'.op = "cashOut" /\ lastCall'.result = "ok") =>
          /\ ~games'[Caller].isActive
          /\ lastCall'.paid = games[Caller].betAmount + lastCall'.won
          /\ sharedPoolBalance' = sharedPoolBalance - lastCall'.paid
          /\ balance' = balance - lastCall'.paid]_vars

\* C16 witness: a cashOut paid the stake and winnings and left value in the pool.
C16_Witness ==
    /\ lastCall.op = "cashOut"
    /\ lastCall.result = "ok"
    /\ lastCall.won > 0
    /\ sharedPoolBalance > 0

\* C17: a cashOut whose payee does not accept the payment is rolled back: the
\* pool, the contract's balance and the game (still active, same counter) are
\* as before the call.
C17_FailedTransferRollsBack ==
    [][(/\ lastCall'.op = "cashOut"
        /\ lastCall'.arg = FALSE
        /\ games[Caller].isActive) =>
          /\ lastCall'.result # "ok"
          /\ StorageUnchanged
          /\ games'[Caller].isActive
          /\ games'[Caller].revealedSafeTiles = games[Caller].revealedSafeTiles]_vars

\* C17 witness: a cashOut got as far as the transfer and failed there.
C17_Witness ==
    /\ lastCall.op = "cashOut"
    /\ lastCall.result = "TransferFailed"
    /\ games[lastCall.caller].isActive
    /\ games[lastCall.caller].revealedSafeTiles > 0
    /\ sharedPoolBalance >= games[lastCall.caller].betAmount

\* C18: in every reachable state the pool holds at least the stake of every
\* active game.
C18_StakeHeldInPool ==
    \A p \in Players : games[p].isActive => sharedPoolBalance >= games[p].betAmount

\* C19: for totalMines in 1..24 and revealedSafeTiles in 1..(25 - totalMines),
\* calculateWinnings returns, and returns no less than it does for one safe
\* tile fewer.
C19_PayoutMonotone ==
    (/\ lastCall.op = "calculateWinnings"
     /\ lastCall.result # "pending"
     /\ lastCall.arg[1] \in MIN_MINES .. MAX_MINES
     /\ lastCall.arg[2] \in 1 .. (GRID_SIZE - lastCall.arg[1]))
    => LET fewer == calculateWinnings(lastCall.value, lastCall.arg[1],
                                      lastCall.arg[2] - 1)
       IN /\ lastCall.result = "ok"
          /\ fewer.ok
          /\ fewer.val <= lastCall.won

\* C20: the pool balance is never negative and never more than the value the
\* contract holds (a wrapped balance would be).
C20_PoolNeverNegative ==
    /\ sharedPoolBalance >= 0
    /\ sharedPoolBalance <= balance

\* C20 witness: a cashOut emptied the pool while the other player's game was
\* still active.
C20_Witness ==
    /\ lastCall.op = "cashOut"
    /\ lastCall.result = "ok"
    /\ sharedPoolBalance = 0
    /\ \E p \in Players : games[p].isActive /\ games[p].betAmount > 0

C22_PureReads ==
    [][/\ lastCall'.op = "getGameStatus" =>
             /\ lastCall'.result = "ok"
             /\ StorageUnchanged
             /\ lastCall'.won = games[lastCall'.arg]
             /\ games[lastCall'.arg].player = 0 =>
                   /\ ~lastCall'.won.isActive
                   /\ lastCall'.won.betAmount = 0
                   /\ lastCall'.won.totalMines = 0
                   /\ lastCall'.won.mineLocations = << >>
       /\ lastCall'.op = "getSharedPoolBalance" =>
             /\ lastCall'.result = "ok"
             /\ StorageUnchanged
             /\ lastCall'.won = sharedPoolBalance]_vars

\* C22 witness: one player read the record of the other player's active game
\* while the reader's own record was still the default one.
C22_Witness ==
    /\ lastCall.op = "getGameStatus"
    /\ lastCall.arg # lastCall.caller
    /\ lastCall.won.isActive
    /\ lastCall.won.betAmount > 0
    /\ games[lastCall.caller].player = 0

C24_IsActiveTransitions ==
    [][/\ \A p \in Players :
             games'[p].isActive # games[p].isActive =>
                /\ lastCall'.caller = p
                /\ lastCall'.result = "ok"
                /\ IF games'[p].isActive
                   THEN lastCall'.op = "startGame"
                   ELSE \/ lastCall'.op = "cashOut"
                        \/ /\ lastCall'.op = "revealTile"
                           /\ lastCall'.arg \in MineSet(games[p])
       /\ lastCall'.result = "ok" =>
             /\ lastCall'.op = "startGame" =>
                   ~games[Caller].isActive /\ games'[Caller].isActive
             /\ lastCall'.op = "cashOut" =>
                   games[Caller].isActive /\ ~games'[Caller].isActive
             /\ lastCall'.op = "revealTile" =>
                   /\ games[Caller].isActive
                   /\ games'[Caller].isActive
                         = (lastCall'.arg \notin MineSet(games[Caller]))]_vars

\* C24 witness: a player has just lost on a mine while the other player's
\* game is still active.
C24_Witness ==
    /\ lastCall.op = "revealTile"
    /\ lastCall.result = "ok"
    /\ ~games[lastCall.caller].isActive
    /\ lastCall.arg \in MineSet(games[lastCall.caller])
    /\ \E p \in Players : p # lastCall.caller /\ games[p].isActive

\* C25: in every reachable state and for every player, revealedSafeTiles is
\* the number of tiles that are marked revealed and are not mines.
C25_SafeTileCount ==
    \A p \in Players :
        games[p].revealedSafeTiles
            = Cardinality(RevealedSet(games[p]) \ MineSet(games[p]))

\* C25 witness: in a second round (the pool holds two stakes) the player has
\* revealed safe tiles and then a mine.
C25_Witness ==
    /\ sharedPoolBalance >= 200
    /\ games[RoundPlayer].revealedSafeTiles >= 2
    /\ RevealedSet(games[RoundPlayer]) \cap MineSet(games[RoundPlayer]) # {}

\* C26: betAmount, totalMines, mineLocations and player of a record change in
\* no step but a startGame of that player that goes through: revealTile,
\* cashOut, addHouseFunds, withdrawHouseFunds, the reads and the rejected
\* calls leave them as set at the start.
C26_GameParametersFixed ==
    [][\A p \in Players :
          (\/ games'[p].betAmount # games[p].betAmount
           \/ games'[p].totalMines # games[p].totalMines
           \/ games'[p].mineLocations # games[p].mineLocations
           \/ games'[p].player # games[p].player)
          => /\ lastCall'.op = "startGame"
             /\ lastCall'.caller = p
             /\ lastCall'.result = "ok"]_vars

\* C26 witness: after safe reveals and a cashOut the record still holds the
\* stake, the mine count and the mine locations of the round.
C26_Witness ==
    /\ lastCall.op = "cashOut"
    /\ lastCall.result = "ok"
    /\ games[lastCall.caller].player = lastCall.caller
    /\ games[lastCall.caller].betAmount > 0
    /\ games[lastCall.caller].totalMines > 0
    /\ games[lastCall.caller].mineLocations # << >>
    /\ games[lastCall.caller].revealedSafeTiles >= 2

\* C27: a reveal flag that is true becomes false in no step but a startGame
\* of that player that goes through, and a revealTile that goes through turns
\* the flag of the requested tile from false to true and changes no other flag.
C27_RevealFlagsMonotone ==
    [][/\ \A p \in Players :
             (\E t \in RevealedSet(games[p]) : ~games'[p].revealedTiles[t])
             => /\ lastCall'.op = "startGame"
                /\ lastCall'.caller = p
                /\ lastCall'.result = "ok"
       /\ (lastCall'.op = "revealTile" /\ lastCall'.result = "ok") =>
             /\ ~games[Caller].revealedTiles[lastCall'.arg]
             /\ games'[Caller].revealedTiles
                   = [games[Caller].revealedTiles EXCEPT ![lastCall'.arg] = TRUE]
             /\ RevealedSet(games'[Caller])
                   = RevealedSet(games[Caller]) \cup {lastCall'.arg}]_vars

\* C27 witness: a losing reveal set the flag of the mine, next to the flags
\* of the safe tiles revealed before it.
C27_Witness ==
    /\ lastCall.op = "revealTile"
    /\ lastCall.result = "ok"
    /\ lastCall.arg \in MineSet(games[lastCall.caller])
    /\ games[lastCall.caller].revealedTiles[lastCall.arg]
    /\ Cardinality(RevealedSet(games[lastCall.caller])) >= 3

\* C28: a step changes the game record of no player but the caller of the
\* call it executes.
C28_PlayerIsolation ==
    [][\A p \in Players :
          games'[p] # games[p] => lastCall'.caller = p]_vars

\* C28 witness: a player started a game while the other player's game was
\* active with a tile revealed, and that game is as it was.
C28_Witness ==
    /\ lastCall.op = "startGame"
    /\ lastCall.result = "ok"
    /\ games[lastCall.caller].revealedSafeTiles = 0
    /\ \E p \in Players :
          /\ p # lastCall.caller
          /\ games[p].isActive
          /\ games[p].player = p
          /\ games[p].revealedSafeTiles > 0

\* C29: the mine locations a startGame writes are a function of the
\* timestamp, the caller and the slot index alone: slot i holds the hash of
\* (block.timestamp, msg.sender, i) modulo 25, whatever the stake, the pool
\* and the records are, and whatever was drawn for the slots before it.
C29_PlacementDeterministic ==
    [][(lastCall'.op = "startGame" /\ lastCall'.result = "ok") =>
          games'[Caller].mineLocations
              = [i \in 0 .. (lastCall'.arg - 1) |->
                     keccakMod25(timestamp, Caller, i)]]_vars

\* C29 witness: three mines were placed in a later block for a player whose
\* earlier round left value in the pool.
C29_Witness ==
    /\ lastCall.op = "startGame"
    /\ lastCall.result = "ok"
    /\ lastCall.arg = 3
    /\ timestamp > 0
    /\ hashSlope = 5
    /\ sharedPoolBalance > lastCall.value

\* C30: in every reachable state sharedPoolBalance is the value the contract
\* holds: the stakes and top-ups received less the payments of cashOut and
\* withdrawHouseFunds.
C30_Conservation ==
    sharedPoolBalance = balance

\* C30 witness: the pool was drained after a stake and a further payment in.
C30_Witness ==
    /\ lastCall.op = "withdrawHouseFunds"
    /\ lastCall.result = "ok"
    /\ lastCall.paid > 100
    /\ balance = 0

\* C31: in every reachable state and for every active game,
\* (25 - totalMines) * revealedSafeTiles is at most 255, the largest uint8, so
\* that calculateWinnings called by cashOut does not abort; and no cashOut of
\* a player whose game is active with a safe tile revealed aborts there.
C31_NoUint8Overflow ==
    /\ \A p \in Players :
          games[p].isActive =>
             (GRID_SIZE - games[p].totalMines) * games[p].revealedSafeTiles
                 <= UINT8_MAX
    /\ \A p \in Players :
          (games[p].isActive /\ games[p].revealedSafeTiles > 0) =>
             calculateWinnings(games[p].betAmount, games[p].totalMines,
                               games[p].revealedSafeTiles).ok

\* C32: in every reachable state and for every player revealedSafeTiles is
\* at most 25 - totalMines; while the game is active no mine location is
\* marked revealed, no record has more than one mine location marked
\* revealed, and right after a losing reveal exactly one is.
C32_MinesStayHidden ==
    /\ \A p \in Players :
          LET hit == RevealedSet(games[p]) \cap MineSet(games[p]) IN
          /\ games[p].revealedSafeTiles <= GRID_SIZE - games[p].totalMines
          /\ games[p].isActive => hit = {}
          /\ Cardinality(hit) <= 1
    /\ (/\ lastCall.op = "revealTile"
        /\ lastCall.result = "ok"
        /\ ~games[lastCall.caller].isActive)
       => RevealedSet(games[lastCall.caller]) \cap MineSet(games[lastCall.caller])
             = {lastCall.arg}

\* C32 witness: a game with 24 mines was lost on its second reveal, the one
\* safe tile having been revealed first.
C32_Witness ==
    /\ lastCall.op = "revealTile"
    /\ lastCall.result = "ok"
    /\ ~games[RoundPlayer].isActive
    /\ games[RoundPlayer].totalMines = MAX_MINES
    /\ games[RoundPlayer].revealedSafeTiles = GRID_SIZE - MAX_MINES

\* C33: a cashOut that goes through pays at least the stake and at most the
\* pool as it was before the call, and the realized winnings are at most
\* what calculateWinnings returns for the record.
C33_PayoutBounds ==
    [][(lastCall'.op = "cashOut" /\ lastCall'.result = "ok") =>
          LET game == games[Caller]
              unclamped == calculateWinnings(game.betAmount, game.totalMines,
                                             game.revealedSafeTiles)
          IN
          /\ balance - balance' >= game.betAmount
          /\ balance - balance' <= sharedPoolBalance
          /\ lastCall'.paid = balance - balance'
          /\ unclamped.ok
          /\ lastCall'.paid - game.betAmount <= unclamped.val]_vars

\* C33 witness: a cashOut paid the whole pool, which was more than the stake
\* and less than the stake with the unclamped winnings.
C33_Witness ==
    /\ lastCall.op = "cashOut"
    /\ lastCall.result = "ok"
    /\ sharedPoolBalance = 0
    /\ lastCall.paid > games[lastCall.caller].betAmount
    /\ lastCall.paid < games[lastCall.caller].betAmount
                          + TheoreticalWinnings(games[lastCall.caller])

\* C34: a cashOut that goes through finds the game active and leaves it
\* cashed out; a cashed-out game stays so until a startGame of that player
\* goes through; and every cashOut of a player whose game is cashed out is
\* rejected with "No active game" and changes neither the pool nor a record.
C34_PaidOutOnce ==
    [][/\ \A p \in Players :
             (lastCall'.op = "cashOut" /\ lastCall'.result = "ok" /\ Caller = p) =>
                /\ games[p].isActive
                /\ CashedOut(p)'
       /\ \A p \in Players :
             (CashedOut(p) /\ ~CashedOut(p)') =>
                /\ lastCall'.op = "startGame"
                /\ lastCall'.caller = p
                /\ lastCall'.result = "ok"
       /\ (lastCall'.op = "cashOut" /\ CashedOut(Caller)) =>
             /\ lastCall'.result = "No active game"
             /\ StorageUnchanged]_vars

\* C34 witness: a second cashOut after one that went through was rejected
\* while the pool still held value.
C34_Witness ==
    /\ lastCall.op = "cashOut"
    /\ lastCall.result = "No active game"
    /\ CashedOut(lastCall.caller)
    /\ games[lastCall.caller].revealedSafeTiles > 0
    /\ sharedPoolBalance >= games[lastCall.caller].betAmount

\* C35: in every state a step is taken from, an active game has totalMines >= 1
\* mine locations, all of them unrevealed tiles of the board; a reveal of any
\* of them is accepted and ends the game, whatever the pool holds; and every
\* reveal of an unrevealed tile by an active player is accepted and leaves
\* one unrevealed tile fewer, so only finitely many reveals can be accepted.
C35_GameCanBeEnded ==
    [][/\ \A p \in Players :
             games[p].isActive =>
                LET game == games[p]
                    hidden == Tiles \ RevealedSet(game)
                IN
                /\ game.totalMines >= MIN_MINES
                /\ Cardinality(MineSet(game)) = game.totalMines
                /\ MineSet(game) \subseteq hidden
                /\ Cardinality(hidden) >= game.totalMines
                /\ \A t \in MineSet(game) :
                      /\ revealTileRequire(p, t) = ""
                      /\ ~gameAfterReveal(game, t).isActive
       /\ (/\ lastCall'.op = "revealTile"
           /\ games[Caller].isActive
           /\ lastCall'.arg \in Tiles \ RevealedSet(games[Caller])) =>
             /\ lastCall'.result = "ok"
             /\ Cardinality(Tiles \ RevealedSet(games'[Caller]))
                   = Cardinality(Tiles \ RevealedSet(games[Caller])) - 1]_vars

\* C35 witness: a player ended the game by revealing a mine after the pool
\* had been drained below the stake.
C35_Witness ==
    /\ lastCall.op = "revealTile"
    /\ lastCall.result = "ok"
    /\ ~games[lastCall.caller].isActive
    /\ games[lastCall.caller].revealedSafeTiles > 0
    /\ sharedPoolBalance < games[lastCall.caller].betAmount

\* What cashOut realizes for a record and a pool: the clamped winnings.
RealizedWinnings(game, pool) ==
    LET unclamped == calculateWinnings(game.betAmount, game.totalMines,
                                       game.revealedSafeTiles)
    IN IF unclamped.ok THEN clampWinnings(unclamped.val, game.betAmount, pool)
       ELSE Panic

\* The component shows what a fetch of the present ledger state, with every
\* read answering, would give.
UiFresh ==
    LET now == fetchAndUpdateState(ui, games[RoundPlayer], sharedPoolBalance, "ok").ui
    IN /\ ui.game = now.game
       /\ ui.liveProfit = now.liveProfit

\* C36: in every state with an active game for which cashOut would go
\* through, the profit fetchAndUpdateState computes from the record and the
\* pool (every read answering) is the winnings cashOut would realize in that
\* state; and the amount of the win modal, betAmount + live profit taken from
\* a component that is up to date, is the amount cashOut has paid.
C36_LiveProfitAgrees ==
    [][/\ LET game == games[RoundPlayer]
              realized == RealizedWinnings(game, sharedPoolBalance)
          IN (game.isActive /\ game.revealedSafeTiles > 0 /\ realized.ok) =>
                fetchAndUpdateState(ui, game, sharedPoolBalance, "ok").ui.liveProfit
                    = realized.val
       /\ (/\ UiFresh
           /\ lastCall'.op = "cashOut"
           /\ lastCall'.result = "ok"
           /\ ui'.modal.isWin) =>
             ui'.modal.amount = lastCall'.paid]_vars

\* The "Game Over" modal is open.
LossShown == ui.modal.isOpen /\ ~ui.modal.isWin

\* C37: a step in which the component opens the loss modal leaves the
\* player's game inactive on the ledger.
C37_LossModalOnlyOnLoss ==
    [][(LossShown' /\ ~LossShown) => ~games'[RoundPlayer].isActive]_vars
====
